---- MODULE Spec2Model ----
(***************************************************************************)
(* River Bank (bank_bot.py): a Telegram bot keeping a community ledger in  *)
(* a spreadsheet.  One handler runs to completion per step.                *)
(*                                                                         *)
(* Text is a tuple of one-character strings, so that lstrip, lower, int    *)
(* and str are computed rather than assumed.  Spreadsheet columns 4        *)
(* (profile link) and 6 (last-updated wall-clock text) are not part of the *)
(* state: no handler reads them back into a decision.                      *)
(***************************************************************************)
EXTENDS Integers, Sequences, FiniteSets, TLC

\* ------------------------------------------------------------- bounds
\* Spec explores states whose transaction logs hold at most this many entries
\* in total (clear empties a log again).
MaxLog == 4
\* Transfer proposals accepted in one run of the process, in Spec.
MaxTransfers == 1
\* Transfer proposals accepted in one run of the process, in SpecSteps: the
\* second one is refused at its confirm for insufficient funds.
MaxStepTransfers == 2
\* SpecLedger explores states whose logs hold at most this many entries in total.
MaxLedgerLog == 2
\* SpecManagers explores states whose logs hold at most this many entries in total.
MaxManagerLog == 2
\* SpecRestart explores states whose logs hold at most this many entries in total.
MaxRestartLog == 3
\* SpecFaulty explores states whose logs hold at most this many entries in
\* total and whose balances are at most this far from zero.
MaxFaulty == 2
\* SpecSteps explores states with at most this many updates received and not
\* yet handled to the end, ...
MaxInFlight == 2
\* ... and whose logs hold at most this many entries in total.
MaxStepLog == 3
\* SpecStore explores states whose logs hold at most this many entries in total.
MaxStoreLog == 2
\* SpecPending explores states in which at most this many transfers were
\* proposed and whose logs hold at most MaxPendingLog entries in total.
MaxPending == 2
MaxPendingLog == 5
\* SpecFrame explores states whose logs hold at most this many entries in total.
MaxFrameLog == 3

\* ------------------------------------------------------------- config
OWNER_ID == 1768830793
\* Row 1 of the sheet is the header row that get_all_records() reads.
HeaderRows == 1

None == <<"N", "o", "n", "e", "!">>
NoReply == [id |-> 0, username |-> None, first_name |-> "", full_name |-> ""]
NoRow == 0

reviosa == <<"r", "e", "v", "i", "o", "s", "a">>
zaonoror == <<"z", "a", "o", "n", "o", "r", "o", "r">>
riv == <<"r", "i", "v">>

\* The Telegram identities that talk to the bot: the owner, a manager
\* listed in ADMINS, and a regular member without a username.
Riv == [id |-> OWNER_ID, username |-> riv, first_name |-> "Riv", full_name |-> "Riv B"]
Rev == [id |-> 42, username |-> reviosa, first_name |-> "Rev", full_name |-> "Rev"]
Bob == [id |-> 43, username |-> None, first_name |-> "Bob", full_name |-> "Bob"]
Users == {Riv, Rev, Bob}
\* A second member without a username, whom nobody ever promotes.
Cal == [id |-> 44, username |-> None, first_name |-> "Cal", full_name |-> "Cal"]

\* Argument tokens of a command.
AmountArgs == {<<"1">>, <<"0">>, <<"-", "1">>, <<"x">>}
AtRiv == <<"@">> \o riv
AtREVIOSA == <<"@", "R", "E", "V", "I", "O", "S", "A">>
AtGhost == <<"@", "g", "h", "o", "s", "t">>
\* The title of column 3, written as a handle.
AtUsername == <<"@", "u", "s", "e", "r", "n", "a", "m", "e">>
HandleArgs == {AtRiv, AtREVIOSA, reviosa, <<"@">>, AtGhost}

VARIABLES
    sheet,              \* data rows of the spreadsheet, sheet[i] is row i + HeaderRows
    pending_transfers,  \* transfer id -> proposal (in memory)
    ADMINS,             \* manager usernames (in memory)
    admins_json,        \* contents of admins.json
    clock,              \* proposals made so far: the instant in a transfer id
    reply,              \* what the last handler answered
    net,                \* history: per row, signed sum of the amounts applied
                        \* since the account was created or last cleared
    lost,               \* history: ids of the proposals that were pending when
                        \* the process was restarted
    tasks               \* SpecSteps: the updates received and not yet handled to
                        \* the end, oldest first, each with its handler's position

vars == <<sheet, pending_transfers, ADMINS, admins_json, clock, reply, net, lost, tasks>>

\* ------------------------------------------------------------- text
Digits == <<"0", "1", "2", "3", "4", "5", "6", "7", "8", "9">>

RECURSIVE DecStr(_)
DecStr(n) == IF n < 10 THEN <<Digits[n + 1]>>
             ELSE DecStr(n \div 10) \o <<Digits[(n % 10) + 1]>>

\* str(n)
PyStr(n) == IF n < 0 THEN <<"-">> \o DecStr(-n) ELSE DecStr(n)

DigitVal(c) == CHOOSE d \in 0..9 : Digits[d + 1] = c

RECURSIVE DecVal(_)
DecVal(s) == IF s = <<>> THEN 0
             ELSE 10 * DecVal(SubSeq(s, 1, Len(s) - 1)) + DigitVal(s[Len(s)])

IsDigit(c) == \E d \in 1..10 : Digits[d] = c

Unsigned(s) == IF s # <<>> /\ s[1] \in {"-", "+"} THEN Tail(s) ELSE s

\* int(s) succeeds: an optional sign, then digits, with single underscores
\* allowed between digits.
IsInt(s) ==
    LET body == Unsigned(s) IN
    /\ body # <<>>
    /\ \A i \in 1..Len(body) :
          \/ IsDigit(body[i])
          \/ /\ body[i] = "_"
             /\ 1 < i
             /\ i < Len(body)
             /\ IsDigit(body[i - 1])
             /\ IsDigit(body[i + 1])

\* int(s)
PyInt(s) ==
    LET digits == SelectSeq(Unsigned(s), IsDigit) IN
    IF s[1] = "-" THEN 0 - DecVal(digits) ELSE DecVal(digits)

RECURSIVE LStripAt(_)
LStripAt(s) == IF s # <<>> /\ s[1] = "@" THEN LStripAt(Tail(s)) ELSE s

StartsWithAt(s) == s # <<>> /\ s[1] = "@"

UpperLetters == <<"A", "B", "C", "D", "E", "F", "G", "H", "I", "J", "K", "L", "M",
                  "N", "O", "P", "Q", "R", "S", "T", "U", "V", "W", "X", "Y", "Z">>
LowerLetters == <<"a", "b", "c", "d", "e", "f", "g", "h", "i", "j", "k", "l", "m",
                  "n", "o", "p", "q", "r", "s", "t", "u", "v", "w", "x", "y", "z">>

\* str.lower(), letter by letter.
LowerOf ==
    [c \in {UpperLetters[i] : i \in 1..Len(UpperLetters)} |->
        LowerLetters[CHOOSE i \in 1..Len(UpperLetters) : UpperLetters[i] = c]]

LowerChar(c) == IF c \in DOMAIN LowerOf THEN LowerOf[c] ELSE c

Lower(s) == [i \in 1..Len(s) |-> LowerChar(s[i])]

\* ------------------------------------------------------------- dict (insertion ordered)
DictHas(d, k) == \E i \in 1..Len(d) : d[i][1] = k

DictGet(d, k, default) ==
    IF DictHas(d, k) THEN d[CHOOSE i \in 1..Len(d) : d[i][1] = k][2] ELSE default

DictSet(d, k, v) ==
    IF DictHas(d, k) THEN [i \in 1..Len(d) |-> IF d[i][1] = k THEN <<k, v>> ELSE d[i]]
    ELSE Append(d, <<k, v>>)

DictDel(d, k) == SelectSeq(d, LAMBDA e : e[1] # k)

\* A cell of column 8: empty, or the text json.dumps wrote.
EmptyCell == [kind |-> "empty", obj |-> <<>>]
JsonDumps(d) == [kind |-> "json", obj |-> d]
\* A cell of column 8 holding text that json.loads rejects (the spreadsheet
\* is shared and can be edited by hand).
MalformedCell == [kind |-> "malformed", obj |-> <<>>]
\* json.loads(cell) returns: it raises json.JSONDecodeError otherwise.
Parses(cell) == cell.kind # "malformed"
\* json.loads(cell) if cell else {}
LoadContributions(cell) == IF cell.kind = "empty" THEN <<>> ELSE cell.obj

\* ------------------------------------------------------------- helpers
Row(r) == sheet[r - HeaderRows]
RowNumbers == {i + HeaderRows : i \in 1..Len(sheet)}

find_user_row(user_id) ==
    IF \E r \in RowNumbers : Row(r).id = user_id
    THEN CHOOSE r \in RowNumbers :
            /\ Row(r).id = user_id
            /\ \A q \in RowNumbers : Row(q).id = user_id => r <= q
    ELSE NoRow

\* Row 1 holds the column titles; its cells are text like any other.  The
\* title of column 1 is no member id and is written 0 here.
Header == [id |-> 0,
           name |-> "Name",
           username |-> <<"U", "s", "e", "r", "n", "a", "m", "e">>,
           balance |-> <<"B", "a", "l", "a", "n", "c", "e">>]
IsHeader(r) == r # NoRow /\ r <= HeaderRows
\* sheet.row_values(r), for the cells that row 1 also has.
Cells(r) == IF IsHeader(r) THEN Header ELSE Row(r)

HandleMatches(val, username) == Lower(LStripAt(val)) = Lower(LStripAt(username))

\* sheet.col_values(3): the cells of column 3 from row 1 down to the last
\* one that is not empty.
RECURSIVE DropTrailingEmpty(_)
DropTrailingEmpty(col) ==
    IF col # <<>> /\ col[Len(col)] = <<>>
    THEN DropTrailingEmpty(SubSeq(col, 1, Len(col) - 1))
    ELSE col

col_values_3 ==
    DropTrailingEmpty(<<Header.username>> \o [i \in 1..Len(sheet) |-> sheet[i].username])

find_user_by_username(username) ==
    LET data == col_values_3
        hits == {r \in 1..Len(data) : HandleMatches(data[r], username)}
    IN  IF hits # {} THEN CHOOSE r \in hits : \A q \in hits : r <= q ELSE NoRow

can_modify(user) ==
    \/ user.id = OWNER_ID
    \/ \E i \in 1..Len(ADMINS) : ADMINS[i] = user.username

Balance(r) == PyInt(Row(r).balance)

SetRow(r, new) == [sheet EXCEPT ![r - HeaderRows] = new]

\* f"{format_datetime()} {sign} {CURRENCY}{amount} {name}"
TxEntry(sign, amount, name) == [sign |-> sign, amount |-> amount, name |-> name]

\* What a handler answered, and for a button press the transfer id pressed.
NoId == <<>>
Answer(tag) == reply' = [tag |-> tag, id |-> NoId]
AnswerFor(tag, transfer_id) == reply' = [tag |-> tag, id |-> transfer_id]
\* Between two updates the dispatcher has nothing to answer.
Idle == [tag |-> "Idle", id |-> NoId]
Silent == UNCHANGED <<sheet, pending_transfers, ADMINS, admins_json, clock, net, lost>>

\* ------------------------------------------------------------- /new
M_newNoLookup(user, reply_to) ==
    IF ~can_modify(user) THEN Answer("Unauthorized") /\ Silent
    ELSE IF reply_to = NoReply THEN Answer("Usage") /\ Silent
    ELSE /\ sheet' = Append(sheet,
                [id |-> reply_to.id,
                 name |-> IF reply_to.full_name # "" THEN reply_to.full_name
                          ELSE reply_to.first_name,
                 username |-> IF reply_to.username # None
                              THEN <<"@">> \o reply_to.username ELSE <<>>,
                 balance |-> <<"0">>,
                 tx |-> <<>>,
                 advance |-> EmptyCell])
         /\ net' = Append(net, 0)
         /\ Answer("Created")
         /\ UNCHANGED <<pending_transfers, ADMINS, admins_json, clock, lost>>

new(user, reply_to) ==
    IF ~can_modify(user) THEN Answer("Unauthorized") /\ Silent
    ELSE IF reply_to = NoReply THEN Answer("Usage") /\ Silent
    ELSE IF find_user_row(reply_to.id) # NoRow THEN Answer("AlreadyExists") /\ Silent
    ELSE /\ sheet' = Append(sheet,
                [id |-> reply_to.id,
                 name |-> IF reply_to.full_name # "" THEN reply_to.full_name
                          ELSE reply_to.first_name,
                 username |-> IF reply_to.username # None
                              THEN <<"@">> \o reply_to.username ELSE <<>>,
                 balance |-> <<"0">>,
                 tx |-> <<>>,
                 advance |-> EmptyCell])
         /\ net' = Append(net, 0)
         /\ Answer("Created")
         /\ UNCHANGED <<pending_transfers, ADMINS, admins_json, clock, lost>>

\* ------------------------------------------------------------- /add, /use
M_AddBalanceFloored(current_balance, amount) ==
    IF current_balance + amount < 0 THEN 0 ELSE current_balance + amount

AddBalance(current_balance, amount) == current_balance + amount

AddContributions(contributions, admin_name, amount) ==
    DictSet(contributions, admin_name, DictGet(contributions, admin_name, 0) + amount)

\* Lines 246-262: the writes of a successful /add.  json.loads at line 260
\* is not guarded: on a cell it rejects, the handler ends there, after the
\* writes of lines 249 and 256, and nothing is answered.
AddApply(row, amount, admin_name) ==
    /\ sheet' = SetRow(row,
          [Row(row) EXCEPT
              !.balance = PyStr(AddBalance(Balance(row), amount)),
              !.tx = <<TxEntry("+", amount, admin_name)>> \o Row(row).tx,
              !.advance = IF Parses(@)
                          THEN JsonDumps(AddContributions(
                                   LoadContributions(@), admin_name, amount))
                          ELSE @])
    /\ net' = [net EXCEPT ![row - HeaderRows] = @ + amount]
    /\ IF Parses(Row(row).advance) THEN Answer("Added") ELSE Answer("Raised")
    /\ UNCHANGED <<pending_transfers, ADMINS, admins_json, clock, lost>>

add(user, reply_to, args) ==
    IF ~can_modify(user) THEN Answer("Unauthorized") /\ Silent
    ELSE IF reply_to # NoReply THEN
        IF args = <<>> THEN Answer("Usage") /\ Silent
        ELSE IF ~IsInt(args[1]) THEN Answer("InvalidAmount") /\ Silent
        ELSE IF find_user_row(reply_to.id) = NoRow THEN Answer("NotFound") /\ Silent
        ELSE AddApply(find_user_row(reply_to.id), PyInt(args[1]), user.first_name)
    ELSE IF Len(args) >= 2 /\ StartsWithAt(args[1]) THEN
        IF find_user_by_username(args[1]) = NoRow THEN Answer("NotFound") /\ Silent
        ELSE IF ~IsInt(args[2]) THEN Answer("InvalidAmount") /\ Silent
        \* int(sheet.cell(row, 5).value) on the title of column 5: ValueError.
        ELSE IF IsHeader(find_user_by_username(args[1])) THEN Answer("Raised") /\ Silent
        ELSE AddApply(find_user_by_username(args[1]), PyInt(args[2]), user.first_name)
    ELSE Answer("Usage") /\ Silent

UseBalance(current_balance, amount) == current_balance - amount

\* Lines 330-337: the new content of column 8 after a /use.
UseContributions(cell, admin_name, amount) ==
    LET contributions == LoadContributions(cell) IN
    IF DictHas(contributions, admin_name)
    THEN IF DictGet(contributions, admin_name, 0) - amount <= 0
         THEN JsonDumps(DictDel(contributions, admin_name))
         ELSE JsonDumps(DictSet(contributions, admin_name,
                                DictGet(contributions, admin_name, 0) - amount))
    ELSE cell

\* Lines 318-342; json.loads at line 331 is not guarded either.
UseApply(row, amount, admin_name) ==
    /\ sheet' = SetRow(row,
          [Row(row) EXCEPT
              !.balance = PyStr(UseBalance(Balance(row), amount)),
              !.tx = <<TxEntry("-", amount, admin_name)>> \o Row(row).tx,
              !.advance = IF Parses(@) THEN UseContributions(@, admin_name, amount)
                          ELSE @])
    /\ net' = [net EXCEPT ![row - HeaderRows] = @ - amount]
    /\ IF Parses(Row(row).advance) THEN Answer("Deducted") ELSE Answer("Raised")
    /\ UNCHANGED <<pending_transfers, ADMINS, admins_json, clock, lost>>

use(user, reply_to, args) ==
    IF ~can_modify(user) THEN Answer("Unauthorized") /\ Silent
    ELSE IF reply_to # NoReply THEN
        IF args = <<>> THEN Answer("Usage") /\ Silent
        ELSE IF ~IsInt(args[1]) THEN Answer("InvalidAmount") /\ Silent
        ELSE IF find_user_row(reply_to.id) = NoRow THEN Answer("NotFound") /\ Silent
        ELSE UseApply(find_user_row(reply_to.id), PyInt(args[1]), user.first_name)
    ELSE IF Len(args) >= 2 /\ StartsWithAt(args[1]) THEN
        IF find_user_by_username(args[1]) = NoRow THEN Answer("NotFound") /\ Silent
        ELSE IF ~IsInt(args[2]) THEN Answer("InvalidAmount") /\ Silent
        ELSE IF IsHeader(find_user_by_username(args[1])) THEN Answer("Raised") /\ Silent
        ELSE UseApply(find_user_by_username(args[1]), PyInt(args[2]), user.first_name)
    ELSE Answer("Usage") /\ Silent

\* ------------------------------------------------------------- /clear
\* The mention branch of the source sits inside the reply branch, after its
\* early return: without a reply the handler answers with the usage text.
M_ClearedRowKeepsAdvance(old) == [old EXCEPT !.balance = <<"0">>, !.tx = <<>>]

ClearedRow(old) == [old EXCEPT !.balance = <<"0">>, !.tx = <<>>, !.advance = EmptyCell]

M_clearDropsProposals(user, reply_to, args) ==
    IF ~can_modify(user) THEN Answer("Unauthorized") /\ Silent
    ELSE IF reply_to # NoReply THEN
        IF find_user_row(reply_to.id) = NoRow THEN Answer("NotFound") /\ Silent
        ELSE /\ sheet' = SetRow(find_user_row(reply_to.id),
                                ClearedRow(Row(find_user_row(reply_to.id))))
             /\ net' = [net EXCEPT ![find_user_row(reply_to.id) - HeaderRows] = 0]
             /\ pending_transfers' = <<>>
             /\ Answer("Cleared")
             /\ UNCHANGED <<ADMINS, admins_json, clock, lost>>
    ELSE Answer("Usage") /\ Silent

clear(user, reply_to, args) ==
    IF ~can_modify(user) THEN Answer("Unauthorized") /\ Silent
    ELSE IF reply_to # NoReply THEN
        IF find_user_row(reply_to.id) = NoRow THEN Answer("NotFound") /\ Silent
        ELSE /\ sheet' = SetRow(find_user_row(reply_to.id),
                                ClearedRow(Row(find_user_row(reply_to.id))))
             /\ net' = [net EXCEPT ![find_user_row(reply_to.id) - HeaderRows] = 0]
             /\ Answer("Cleared")
             /\ UNCHANGED <<pending_transfers, ADMINS, admins_json, clock, lost>>
    ELSE Answer("Usage") /\ Silent

\* ------------------------------------------------------------- /transfer
\* f"{user.id}_{target_id}_{amount}_{datetime.now().timestamp()}": the instant
\* is later on every call, so no two proposals share an id.
TransferId(sender_id, target_id, amount, instant) == <<sender_id, target_id, amount, instant>>

PendingTransfer(user, sender_row, target_row, amount) ==
    [sender_id |-> user.id,
     sender_row |-> sender_row,
     target_id |-> Cells(target_row).id,
     target_row |-> target_row,
     target_name |-> Cells(target_row).name,
     amount |-> amount]

Propose(user, sender_row, target_row, amount) ==
    /\ clock' = clock + 1
    /\ pending_transfers' =
          (TransferId(user.id, Cells(target_row).id, amount, clock + 1)
              :> PendingTransfer(user, sender_row, target_row, amount))
          @@ pending_transfers
    /\ Answer("Proposed")
    /\ UNCHANGED <<sheet, ADMINS, admins_json, net, lost>>

transfer(user, args) ==
    IF ~can_modify(user) THEN Answer("Unauthorized") /\ Silent
    ELSE IF find_user_row(user.id) = NoRow THEN Answer("NoAccount") /\ Silent
    ELSE IF Len(args) < 2 THEN Answer("Usage") /\ Silent
    ELSE IF ~IsInt(args[2]) THEN Answer("InvalidAmount") /\ Silent
    ELSE IF PyInt(args[2]) <= 0 THEN Answer("InvalidAmount") /\ Silent
    ELSE IF find_user_by_username(args[1]) = NoRow THEN Answer("NotFound") /\ Silent
    ELSE IF Balance(find_user_row(user.id)) < PyInt(args[2])
         THEN Answer("InsufficientToPropose") /\ Silent
    ELSE IF Cells(find_user_by_username(args[1])).id = user.id
         THEN Answer("SelfTransfer") /\ Silent
    ELSE Propose(user, find_user_row(user.id), find_user_by_username(args[1]), PyInt(args[2]))

\* ------------------------------------------------------------- /prom, /dem
InAdmins(username) == \E i \in 1..Len(ADMINS) : ADMINS[i] = username

\* list.remove: drops the first occurrence.
RECURSIVE ListRemove(_, _)
ListRemove(list, x) ==
    IF list = <<>> THEN <<>>
    ELSE IF Head(list) = x THEN Tail(list)
    ELSE <<Head(list)>> \o ListRemove(Tail(list), x)

\* json.dump(ADMINS, f): the file holds the list as it is after the change.
save_admins(admins) == admins

M_promTwice(user, reply_to) ==
    IF user.id # OWNER_ID THEN Answer("OwnerOnly") /\ Silent
    ELSE IF reply_to = NoReply THEN Answer("Usage") /\ Silent
    ELSE IF reply_to.id = OWNER_ID THEN Answer("OwnerProtected") /\ Silent
    ELSE /\ ADMINS' = Append(ADMINS, reply_to.username)
         /\ admins_json' = save_admins(ADMINS')
         /\ Answer("Promoted")
         /\ UNCHANGED <<sheet, pending_transfers, clock, net, lost>>

prom(user, reply_to) ==
    IF user.id # OWNER_ID THEN Answer("OwnerOnly") /\ Silent
    ELSE IF reply_to = NoReply THEN Answer("Usage") /\ Silent
    ELSE IF reply_to.id = OWNER_ID THEN Answer("OwnerProtected") /\ Silent
    ELSE IF InAdmins(reply_to.username) THEN Answer("AlreadyManager") /\ Silent
    ELSE /\ ADMINS' = Append(ADMINS, reply_to.username)
         /\ admins_json' = save_admins(ADMINS')
         /\ Answer("Promoted")
         /\ UNCHANGED <<sheet, pending_transfers, clock, net, lost>>

M_demByAnyone(user, reply_to) ==
    IF reply_to = NoReply THEN Answer("Usage") /\ Silent
    ELSE IF reply_to.id = OWNER_ID THEN Answer("OwnerProtected") /\ Silent
    ELSE IF ~InAdmins(reply_to.username) THEN Answer("NotManager") /\ Silent
    ELSE /\ ADMINS' = ListRemove(ADMINS, reply_to.username)
         /\ admins_json' = save_admins(ADMINS')
         /\ Answer("Demoted")
         /\ UNCHANGED <<sheet, pending_transfers, clock, net, lost>>

dem(user, reply_to) ==
    IF user.id # OWNER_ID THEN Answer("OwnerOnly") /\ Silent
    ELSE IF reply_to = NoReply THEN Answer("Usage") /\ Silent
    ELSE IF reply_to.id = OWNER_ID THEN Answer("OwnerProtected") /\ Silent
    ELSE IF ~InAdmins(reply_to.username) THEN Answer("NotManager") /\ Silent
    ELSE /\ ADMINS' = ListRemove(ADMINS, reply_to.username)
         /\ admins_json' = save_admins(ADMINS')
         /\ Answer("Demoted")
         /\ UNCHANGED <<sheet, pending_transfers, clock, net, lost>>

\* ------------------------------------------------------------- button_callback
Discard(transfer_id) ==
    [t \in DOMAIN pending_transfers \ {transfer_id} |-> pending_transfers[t]]

\* Lines 523-531, then 533-543, each on the sheet as the previous write left it.
Debited(s, row, amount, target_name) ==
    [s EXCEPT ![row - HeaderRows] =
        [@ EXCEPT !.balance = PyStr(PyInt(s[row - HeaderRows].balance) - amount),
                  !.tx = <<TxEntry("-", amount, target_name)>> \o @]]

M_CreditedOverwrites(s, row, amount, sender_name) ==
    [s EXCEPT ![row - HeaderRows] =
        [@ EXCEPT !.balance = PyStr(amount),
                  !.tx = <<TxEntry("+", amount, sender_name)>> \o @]]

Credited(s, row, amount, sender_name) ==
    [s EXCEPT ![row - HeaderRows] =
        [@ EXCEPT !.balance = PyStr(PyInt(s[row - HeaderRows].balance) + amount),
                  !.tx = <<TxEntry("+", amount, sender_name)>> \o @]]

\* Lines 512-543 up to a call that raised, after `done` of the writes to the
\* sender's balance, the sender's log and the target's balance; line 546 is
\* not reached, so the proposal stays pending.
ConfirmAbort(transfer_id, done) ==
    LET d == pending_transfers[transfer_id]
        sender == d.sender_row - HeaderRows
        target == d.target_row - HeaderRows
        s1 == IF done >= 1
              THEN [sheet EXCEPT ![sender].balance = PyStr(PyInt(@) - d.amount)]
              ELSE sheet
        s2 == IF done >= 2
              THEN [s1 EXCEPT ![sender].tx = <<TxEntry("-", d.amount, d.target_name)>> \o @]
              ELSE s1
        s3 == IF done >= 3
              THEN [s2 EXCEPT ![target].balance = PyStr(PyInt(@) + d.amount)]
              ELSE s2
        n1 == IF done >= 1 THEN [net EXCEPT ![sender] = @ - d.amount] ELSE net
        n3 == IF done >= 3 THEN [n1 EXCEPT ![target] = @ + d.amount] ELSE n1
    IN  /\ sheet' = s3
        /\ net' = n3
        /\ AnswerFor("Raised", transfer_id)
        /\ UNCHANGED <<pending_transfers, ADMINS, admins_json, clock, lost>>

M_ConfirmApplyKeeps(transfer_id) ==
    IF IsHeader(pending_transfers[transfer_id].target_row) THEN ConfirmAbort(transfer_id, 2) ELSE
    LET transfer_data == pending_transfers[transfer_id]
        afterDebit == Debited(sheet, transfer_data.sender_row, transfer_data.amount,
                              transfer_data.target_name)
        sender_name == afterDebit[transfer_data.sender_row - HeaderRows].name
    IN  /\ sheet' = Credited(afterDebit, transfer_data.target_row, transfer_data.amount,
                             sender_name)
        /\ net' = [net EXCEPT
                      ![transfer_data.sender_row - HeaderRows] = @ - transfer_data.amount,
                      ![transfer_data.target_row - HeaderRows] = @ + transfer_data.amount]
        /\ AnswerFor("Transferred", transfer_id)
        /\ UNCHANGED <<pending_transfers, ADMINS, admins_json, clock, lost>>

\* Lines 518-552.  A proposal whose target row is the title row gets as far
\* as int(sheet.cell(target_row, 5).value) at line 534, which raises.
ConfirmApply(transfer_id) ==
    IF IsHeader(pending_transfers[transfer_id].target_row) THEN ConfirmAbort(transfer_id, 2) ELSE
    LET transfer_data == pending_transfers[transfer_id]
        afterDebit == Debited(sheet, transfer_data.sender_row, transfer_data.amount,
                              transfer_data.target_name)
        sender_name == afterDebit[transfer_data.sender_row - HeaderRows].name
    IN  /\ sheet' = Credited(afterDebit, transfer_data.target_row, transfer_data.amount,
                             sender_name)
        /\ net' = [net EXCEPT
                      ![transfer_data.sender_row - HeaderRows] = @ - transfer_data.amount,
                      ![transfer_data.target_row - HeaderRows] = @ + transfer_data.amount]
        /\ pending_transfers' = Discard(transfer_id)
        /\ AnswerFor("Transferred", transfer_id)
        /\ UNCHANGED <<ADMINS, admins_json, clock, lost>>

\* Lines 513-514: the re-check fails and the message is edited.  The handler
\* gives way to the event loop at the await of line 514: the answer is out
\* and the proposal is still pending (the case in which the edit raises is in
\* confirm_raises).
ConfirmInsufficient(transfer_id) ==
    /\ AnswerFor("InsufficientFunds", transfer_id)
    /\ Silent

\* A handler that the dispatcher runs as a whole waits at line 514 (a handler
\* run as a task keeps its place in pc).
AtLine514 ==
    /\ reply.tag = "InsufficientFunds"
    /\ reply.id \in DOMAIN pending_transfers
    /\ \A i \in 1..Len(tasks) : tasks[i].pc # "del"

\* Lines 515-516: the handler is resumed, drops the proposal and returns.
confirm_resume ==
    /\ AtLine514
    /\ pending_transfers' = Discard(reply.id)
    /\ UNCHANGED <<sheet, ADMINS, admins_json, clock, reply, net, lost, tasks>>

M_confirmNoRecheck(user, transfer_id) ==
    IF transfer_id \notin DOMAIN pending_transfers
    THEN AnswerFor("Expired", transfer_id) /\ Silent
    ELSE IF pending_transfers[transfer_id].sender_id # user.id
    THEN AnswerFor("NotOwner", transfer_id) /\ Silent
    ELSE ConfirmApply(transfer_id)

confirm(user, transfer_id) ==
    IF transfer_id \notin DOMAIN pending_transfers
    THEN AnswerFor("Expired", transfer_id) /\ Silent
    ELSE IF pending_transfers[transfer_id].sender_id # user.id
    THEN AnswerFor("NotOwner", transfer_id) /\ Silent
    ELSE IF Balance(pending_transfers[transfer_id].sender_row)
                < pending_transfers[transfer_id].amount
    THEN ConfirmInsufficient(transfer_id)
    ELSE ConfirmApply(transfer_id)

M_cancelByAnyone(user, transfer_id) ==
    /\ pending_transfers' = Discard(transfer_id)
    /\ AnswerFor("Cancelled", transfer_id)
    /\ UNCHANGED <<sheet, ADMINS, admins_json, clock, net, lost>>

M_cancelKeepsProposal(user, transfer_id) ==
    IF transfer_id \in DOMAIN pending_transfers
          /\ pending_transfers[transfer_id].sender_id # user.id
    THEN AnswerFor("NotOwner", transfer_id) /\ Silent
    ELSE AnswerFor("Cancelled", transfer_id) /\ Silent

cancel(user, transfer_id) ==
    IF transfer_id \in DOMAIN pending_transfers
          /\ pending_transfers[transfer_id].sender_id # user.id
    THEN AnswerFor("NotOwner", transfer_id) /\ Silent
    ELSE /\ pending_transfers' = Discard(transfer_id)
         /\ AnswerFor("Cancelled", transfer_id)
         /\ UNCHANGED <<sheet, ADMINS, admins_json, clock, net, lost>>

\* ------------------------------------------------------------- store failures
\* A call to the spreadsheet raises (gspread.exceptions.APIError, a timeout):
\* no handler catches it, so the handler ends there, the writes made before
\* it stay and nothing is answered.  done counts the writes to columns 5, 7
\* and 8 that were made before the call that raised.
\* A spreadsheet call of /add or /use raises (gspread APIError) after `done`
\* of the writes to balance and log; in the mention form the first calls are
\* those of find_user_by_username and row_values, made before the amount is
\* converted.
AddAbort(row, amount, admin_name, done) ==
    /\ sheet' = SetRow(row,
          [Row(row) EXCEPT
              !.balance = IF done >= 1 THEN PyStr(AddBalance(Balance(row), amount)) ELSE @,
              !.tx = IF done >= 2 THEN <<TxEntry("+", amount, admin_name)>> \o @ ELSE @])
    /\ net' = [net EXCEPT ![row - HeaderRows] = IF done >= 1 THEN @ + amount ELSE @]
    /\ Answer("Raised")
    /\ UNCHANGED <<pending_transfers, ADMINS, admins_json, clock, lost>>

add_raises(user, reply_to, args, done) ==
    /\ can_modify(user)
    /\ IF reply_to # NoReply
       THEN /\ args # <<>>
            /\ IsInt(args[1])
            /\ IF find_user_row(reply_to.id) = NoRow
               THEN done = 0 /\ Answer("Raised") /\ Silent
               ELSE AddAbort(find_user_row(reply_to.id), PyInt(args[1]), user.first_name, done)
       ELSE /\ Len(args) >= 2
            /\ StartsWithAt(args[1])
            /\ IF \/ find_user_by_username(args[1]) = NoRow
                  \/ IsHeader(find_user_by_username(args[1]))
                  \/ ~IsInt(args[2])
               THEN done = 0 /\ Answer("Raised") /\ Silent
               ELSE AddAbort(find_user_by_username(args[1]), PyInt(args[2]),
                         user.first_name, done)

UseAbort(row, amount, admin_name, done) ==
    /\ sheet' = SetRow(row,
          [Row(row) EXCEPT
              !.balance = IF done >= 1 THEN PyStr(UseBalance(Balance(row), amount)) ELSE @,
              !.tx = IF done >= 2 THEN <<TxEntry("-", amount, admin_name)>> \o @ ELSE @])
    /\ net' = [net EXCEPT ![row - HeaderRows] = IF done >= 1 THEN @ - amount ELSE @]
    /\ Answer("Raised")
    /\ UNCHANGED <<pending_transfers, ADMINS, admins_json, clock, lost>>

use_raises(user, reply_to, args, done) ==
    /\ can_modify(user)
    /\ IF reply_to # NoReply
       THEN /\ args # <<>>
            /\ IsInt(args[1])
            /\ IF find_user_row(reply_to.id) = NoRow
               THEN done = 0 /\ Answer("Raised") /\ Silent
               ELSE UseAbort(find_user_row(reply_to.id), PyInt(args[1]), user.first_name, done)
       ELSE /\ Len(args) >= 2
            /\ StartsWithAt(args[1])
            /\ IF \/ find_user_by_username(args[1]) = NoRow
                  \/ IsHeader(find_user_by_username(args[1]))
                  \/ ~IsInt(args[2])
               THEN done = 0 /\ Answer("Raised") /\ Silent
               ELSE UseAbort(find_user_by_username(args[1]), PyInt(args[2]),
                         user.first_name, done)

\* A confirm by the sender that ends in an exception.  With done = 0 the
\* re-check read of line 512 raised, or the balance was too low and the
\* Telegram call of line 514, made before the del of line 515, raised.  The
\* read of the target's balance (line 534) comes after the second write and
\* raises on the title row, so the third write needs a target account.
confirm_raises(user, transfer_id, done) ==
    /\ transfer_id \in DOMAIN pending_transfers
    /\ pending_transfers[transfer_id].sender_id = user.id
    /\ \/ done = 0
       \/ Balance(pending_transfers[transfer_id].sender_row)
              >= pending_transfers[transfer_id].amount
    /\ IsHeader(pending_transfers[transfer_id].target_row) => done <= 2
    /\ ConfirmAbort(transfer_id, done)

\* ------------------------------------------------------------- views
RECURSIVE InsertByAmount(_, _)
InsertByAmount(sorted, item) ==
    IF sorted = <<>> THEN <<item>>
    ELSE IF Head(sorted)[2] >= item[2] THEN <<Head(sorted)>> \o InsertByAmount(Tail(sorted), item)
    ELSE <<item>> \o sorted

RECURSIVE SortedContribs(_)
SortedContribs(items) ==
    IF items = <<>> THEN <<>>
    ELSE InsertByAmount(SortedContribs(SubSeq(items, 1, Len(items) - 1)), items[Len(items)])

\* One line per contributor, largest amount first; the empty text for an
\* empty cell or an empty object.
get_contribution_breakdown(row) ==
    IF Row(row).advance.kind = "empty" THEN <<>>
    ELSE IF ~Parses(Row(row).advance) THEN <<>>
    ELSE SortedContribs(Row(row).advance.obj)

\* ------------------------------------------------------------- /check
check(user, reply_to, args) ==
    /\ Silent
    /\ IF ~can_modify(user) THEN Answer("Unauthorized")
       ELSE IF reply_to # NoReply THEN
           IF find_user_row(reply_to.id) = NoRow THEN Answer("NoAccount")
           ELSE Answer("Details")
       ELSE IF args # <<>> /\ StartsWithAt(args[1]) THEN
           IF find_user_by_username(args[1]) = NoRow THEN Answer("NotFound")
           \* format_money(balance) on the title of column 5: ValueError.
           ELSE IF IsHeader(find_user_by_username(args[1])) THEN Answer("Raised")
           ELSE Answer("Details")
       ELSE Answer("Usage")

\* ------------------------------------------------------------- /bal, view buttons, /infobank
\* The views read the sheet and send or edit a message.
bal(user) ==
    /\ Silent
    /\ IF find_user_row(user.id) = NoRow THEN Answer("NoAccount") ELSE Answer("Account")

\* Button tx_<id>.
showTransactions(target_id) ==
    /\ Silent
    /\ IF find_user_row(target_id) = NoRow THEN Answer("UserNotFound") ELSE Answer("History")

\* Button back_<id>.
showAccountSummary(target_id) ==
    /\ Silent
    /\ IF find_user_row(target_id) = NoRow THEN Answer("UserNotFound") ELSE Answer("Account")

\* Button close_<id>.
closeView ==
    /\ Silent
    /\ Answer("Closed")

\* Line 589 calls find_user_by_username on every entry of ADMINS; on None
\* (put there by /prom of a user without username) .lstrip raises.
infobank ==
    /\ Silent
    /\ IF InAdmins(None) THEN Answer("Raised") ELSE Answer("Info")

\* ------------------------------------------------------------- the shared sheet
\* Someone with access to the spreadsheet types into column 8 of a row.
external_edit(row) ==
    /\ row \in RowNumbers
    /\ sheet' = SetRow(row, [Row(row) EXCEPT !.advance = MalformedCell])
    /\ UNCHANGED <<pending_transfers, ADMINS, admins_json, clock, reply, net, lost>>

\* ------------------------------------------------------------- specification
NoFile == <<None>>

Init ==
    /\ sheet = <<>>
    /\ pending_transfers = <<>>
    /\ ADMINS = <<reviosa, zaonoror>>
    /\ admins_json = NoFile
    /\ clock = 0
    /\ reply = Idle
    /\ net = <<>>
    /\ lost = {}
    /\ tasks = <<>>

M_run_pollingAtOnce ==
    /\ reply # Idle
    /\ reply' = Idle
    /\ Silent
    /\ UNCHANGED tasks

\* app.run_polling(): the answer is out and the dispatcher takes the next
\* update; a handler runs to completion before the next one starts.
run_polling ==
    /\ reply # Idle
    /\ ~AtLine514
    /\ reply' = Idle
    /\ Silent
    /\ UNCHANGED tasks

\* The process is stopped and started again: the module body runs anew
\* (ADMINS = [...] at line 26, pending_transfers = {} at line 689; nothing
\* reads admins.json), the spreadsheet and the file stay as they are, and the
\* wall clock that stamps transfer ids goes on.
restart ==
    /\ ADMINS' = <<reviosa, zaonoror>>
    /\ pending_transfers' = <<>>
    /\ reply' = Idle
    /\ lost' = lost \cup DOMAIN pending_transfers
    /\ tasks' = <<>>
    /\ UNCHANGED <<sheet, admins_json, clock, net>>

RECURSIVE LogTotal(_)
LogTotal(s) == IF s = <<>> THEN 0 ELSE Len(Head(s).tx) + LogTotal(Tail(s))

Req(reply_to, args) == [reply_to |-> reply_to, args |-> args]

\* A Confirm or Cancel button exists once the proposal that shows it was made.
Issued(t) == t[4] <= clock

\* Every id a button shown in a run of Spec can carry.
TransferIds == {TransferId(s.id, t.id, 1, i) :
                   s \in {Riv, Rev}, t \in {Riv, Rev}, i \in 1..MaxTransfers}

\* Spec: the transfer protocol between the accounts of the owner and of a
\* manager, with unit amounts.
Within == LogTotal(sheet) <= MaxLog /\ clock <= MaxTransfers

UnitRequests ==
    {Req(Riv, <<<<"1">>>>), Req(Rev, <<<<"1">>>>), Req(Bob, <<<<"1">>>>),
     Req(Riv, <<<<"x">>>>), Req(Riv, <<>>), Req(NoReply, <<>>),
     Req(NoReply, <<AtREVIOSA, <<"1">>>>), Req(NoReply, <<AtGhost, <<"1">>>>),
     Req(NoReply, <<AtUsername, <<"1">>>>)}

ClearRequests ==
    {Req(Riv, <<>>), Req(Rev, <<>>), Req(Bob, <<>>), Req(NoReply, <<>>),
     Req(NoReply, <<AtRiv>>), Req(NoReply, <<AtGhost>>)}

TransferArgs ==
    {<<>>} \cup {<<h, a>> : h \in HandleArgs, a \in {<<"1">>, <<"0">>, <<"x">>}}

Handle ==
    \/ \E u \in Users, r \in {NoReply, Riv, Rev} : new(u, r)
    \/ \E u \in {Riv, Bob}, q \in UnitRequests : add(u, q.reply_to, q.args) /\ Within'
    \/ \E u \in {Riv, Bob}, q \in UnitRequests : use(u, q.reply_to, q.args) /\ Within'
    \/ \E u \in Users, q \in ClearRequests : clear(u, q.reply_to, q.args)
    \/ \E u \in Users, a \in TransferArgs : transfer(u, a) /\ Within'
    \/ \E u \in Users, t \in TransferIds : Issued(t) /\ confirm(u, t) /\ Within'
    \/ \E u \in Users, t \in TransferIds : Issued(t) /\ cancel(u, t)

Next ==
    \/ reply = Idle /\ Handle /\ UNCHANGED tasks
    \/ confirm_resume
    \/ run_polling

Spec == Init /\ [][Next]_vars

\* SpecLedger: add, use and clear with positive, zero, negative and malformed
\* amounts on the accounts of a manager and of a member without a username,
\* named by reply or by handle.
WithinLedger == LogTotal(sheet) <= MaxLedgerLog

LedgerRequests ==
    {Req(r, <<a>>) : r \in Users, a \in AmountArgs}
    \cup {Req(NoReply, <<h, a>>) : h \in {AtREVIOSA, <<"@">>, AtGhost, reviosa},
                                   a \in {<<"1">>, <<"-", "1">>}}
    \cup {Req(Riv, <<>>), Req(NoReply, <<>>), Req(NoReply, <<AtRiv, <<"x">>>>)}

LedgerHandle ==
    \/ \E u \in Users, r \in {Rev, Bob, NoReply} : new(u, r)
    \/ \E u \in Users, q \in LedgerRequests : add(u, q.reply_to, q.args) /\ WithinLedger'
    \/ \E u \in Users, q \in LedgerRequests : use(u, q.reply_to, q.args) /\ WithinLedger'
    \/ \E u \in Users, q \in ClearRequests : clear(u, q.reply_to, q.args)

LedgerNext ==
    \/ reply = Idle /\ LedgerHandle /\ UNCHANGED tasks
    \/ run_polling

SpecLedger == Init /\ [][LedgerNext]_vars

\* SpecManagers: promotion, demotion and restart, around unit commands on
\* the accounts of the owner and of a manager.
WithinManagers == LogTotal(sheet) <= MaxManagerLog /\ clock <= MaxTransfers

PromTargets == {NoReply, Riv, Rev, Bob}

ManagersHandle ==
    \/ \E u \in {Riv, Rev}, r \in PromTargets : prom(u, r)
    \/ \E u \in {Riv, Rev}, r \in PromTargets : dem(u, r)
    \/ \E u \in {Riv, Cal}, r \in {Riv, Rev} : new(u, r)
    \/ \E u \in {Riv, Rev, Cal} : add(u, Riv, <<<<"1">>>>) /\ WithinManagers'
    \/ \E u \in {Rev, Cal} : use(u, Riv, <<<<"1">>>>) /\ WithinManagers'
    \/ \E u \in {Rev, Cal} : clear(u, Riv, <<>>)
    \/ \E u \in {Riv, Rev, Cal} : transfer(u, <<AtREVIOSA, <<"1">>>>) /\ WithinManagers'
    \/ \E u \in {Riv, Rev}, t \in TransferIds : Issued(t) /\ cancel(u, t)

ManagersNext ==
    \/ reply = Idle /\ ManagersHandle /\ UNCHANGED tasks
    \/ run_polling
    \/ restart

SpecManagers == Init /\ [][ManagersNext]_vars

\* SpecRestart: proposals of the owner to a manager, decided by either of
\* them, across restarts of the process.
WithinRestart == LogTotal(sheet) <= MaxRestartLog /\ clock <= MaxTransfers

RestartHandle ==
    \/ \E r \in {Riv, Rev} : new(Riv, r)
    \/ add(Riv, Riv, <<<<"1">>>>) /\ WithinRestart'
    \/ use(Riv, Riv, <<<<"1">>>>) /\ WithinRestart'
    \/ \E u \in {Riv, Rev} : clear(u, Riv, <<>>)
    \/ transfer(Riv, <<AtREVIOSA, <<"1">>>>) /\ WithinRestart'
    \/ \E u \in {Riv, Rev}, t \in TransferIds : Issued(t) /\ confirm(u, t) /\ WithinRestart'
    \/ \E u \in {Riv, Rev}, t \in TransferIds : Issued(t) /\ cancel(u, t)

RestartNext ==
    \/ reply = Idle /\ RestartHandle /\ UNCHANGED tasks
    \/ confirm_resume
    \/ run_polling
    \/ restart

SpecRestart == Init /\ [][RestartNext]_vars

\* SpecFaulty: unit commands on the accounts of the owner and of a manager,
\* any of whose calls to the spreadsheet may raise.
RECURSIVE MaxAbsBalance(_)
MaxAbsBalance(s) ==
    IF s = <<>> THEN 0
    ELSE LET b == PyInt(Head(s).balance)
             a == IF b < 0 THEN -b ELSE b
             m == MaxAbsBalance(Tail(s))
         IN  IF a > m THEN a ELSE m

WithinFaulty ==
    /\ LogTotal(sheet) <= MaxFaulty
    /\ MaxAbsBalance(sheet) <= MaxFaulty
    /\ clock <= MaxTransfers

WritesDone == 0..2

FaultyHandle ==
    \/ \E r \in {Riv, Rev} : new(Riv, r)
    \/ \E r \in {Riv, Rev} : add(Riv, r, <<<<"1">>>>) /\ WithinFaulty'
    \/ use(Riv, Riv, <<<<"1">>>>) /\ WithinFaulty'
    \/ \E q \in {Req(Riv, <<<<"1">>>>), Req(NoReply, <<AtREVIOSA, <<"1">>>>)}, k \in WritesDone :
          add_raises(Riv, q.reply_to, q.args, k) /\ WithinFaulty'
    \/ \E k \in WritesDone : use_raises(Riv, Riv, <<<<"1">>>>, k) /\ WithinFaulty'
    \/ transfer(Riv, <<AtREVIOSA, <<"1">>>>) /\ WithinFaulty'
    \/ \E t \in TransferIds : Issued(t) /\ confirm(Riv, t) /\ WithinFaulty'
    \/ \E t \in TransferIds, k \in WritesDone \cup {3} :
          confirm_raises(Riv, t, k) /\ WithinFaulty'
    \/ \E t \in TransferIds : Issued(t) /\ cancel(Riv, t)

FaultyNext ==
    \/ reply = Idle /\ FaultyHandle /\ UNCHANGED tasks
    \/ confirm_resume
    \/ run_polling

SpecFaulty == Init /\ [][FaultyNext]_vars

\* SpecRetry: the owner funds the own account with /add, proposes a transfer
\* to a manager and presses Confirm again after an attempt that ended in a
\* failed spreadsheet call.  Nothing but a confirm lowers the owner's balance.
RetryHandle ==
    \/ \E r \in {Riv, Rev} : new(Riv, r)
    \/ add(Riv, Riv, <<<<"1">>>>) /\ WithinFaulty'
    \/ transfer(Riv, <<AtREVIOSA, <<"1">>>>) /\ WithinFaulty'
    \/ \E t \in TransferIds : Issued(t) /\ confirm(Riv, t) /\ WithinFaulty'
    \/ \E t \in TransferIds, k \in WritesDone \cup {3} :
          confirm_raises(Riv, t, k) /\ WithinFaulty'
    \/ \E t \in TransferIds : Issued(t) /\ cancel(Riv, t)

RetryNext ==
    \/ reply = Idle /\ RetryHandle /\ UNCHANGED tasks
    \/ confirm_resume
    \/ run_polling

SpecRetry == Init /\ [][RetryNext]_vars

\* SpecStore: one member's account, written by the owner's commands and by
\* hand in the spreadsheet.
WithinStore == LogTotal(sheet) <= MaxStoreLog

StoreRequests == {Req(Rev, <<a>>) : a \in {<<"1">>, <<"-", "1">>}}
                 \cup {Req(NoReply, <<AtREVIOSA, <<"1">>>>)}

StoreHandle ==
    \/ new(Riv, Rev)
    \/ \E q \in StoreRequests : add(Riv, q.reply_to, q.args) /\ WithinStore'
    \/ \E q \in StoreRequests : use(Riv, q.reply_to, q.args) /\ WithinStore'
    \/ clear(Riv, Rev, <<>>)
    \/ \E u \in {Riv, Bob}, r \in {Rev, Bob, NoReply} : check(u, r, <<AtREVIOSA>>)

StoreNext ==
    \/ reply = Idle /\ StoreHandle /\ UNCHANGED tasks
    \/ reply = Idle /\ (\E r \in RowNumbers : external_edit(r)) /\ UNCHANGED tasks
    \/ run_polling

SpecStore == Init /\ [][StoreNext]_vars

\* SpecPending: the owner proposes several transfers to a manager against the
\* same balance and decides them in any order.
WithinPending == LogTotal(sheet) <= MaxPendingLog /\ clock <= MaxPending

PendingIds == {TransferId(Riv.id, Rev.id, 1, i) : i \in 1..MaxPending}

PendingHandle ==
    \/ \E r \in {Riv, Rev} : new(Riv, r)
    \/ add(Riv, Riv, <<<<"1">>>>) /\ WithinPending'
    \/ use(Riv, Riv, <<<<"1">>>>) /\ WithinPending'
    \/ transfer(Riv, <<AtREVIOSA, <<"1">>>>) /\ WithinPending'
    \/ \E t \in PendingIds : Issued(t) /\ confirm(Riv, t) /\ WithinPending'
    \/ \E t \in PendingIds : Issued(t) /\ cancel(Riv, t)

PendingNext ==
    \/ reply = Idle /\ PendingHandle /\ UNCHANGED tasks
    \/ confirm_resume
    \/ run_polling

SpecPending == Init /\ [][PendingNext]_vars

\* SpecFrame: every command and every button, on the accounts of the owner
\* and of a manager who proposes transfers and is promoted and demoted.
WithinFrame == LogTotal(sheet) <= MaxFrameLog /\ clock <= MaxTransfers

FrameIds == {TransferId(Rev.id, t, 1, i) : t \in {Riv.id, Header.id}, i \in 1..MaxTransfers}

FrameTransfers == {<<h, a>> : h \in {AtRiv, AtUsername}, a \in {<<"1">>, <<"0">>}}

ViewHandle ==
    \/ \E u \in {Rev, Bob} : bal(u)
    \/ \E u \in {Riv, Bob} : check(u, Rev, <<>>)
    \/ \E u \in {Rev, Bob} : showTransactions(u.id)
    \/ \E u \in {Rev, Bob} : showAccountSummary(u.id)
    \/ closeView
    \/ infobank

FrameHandle ==
    \/ \E r \in {Riv, Rev} : new(Riv, r)
    \/ add(Riv, Rev, <<<<"1">>>>) /\ WithinFrame'
    \/ use(Riv, Rev, <<<<"1">>>>) /\ WithinFrame'
    \/ clear(Riv, Rev, <<>>)
    \/ \E u \in {Rev, Bob}, a \in FrameTransfers : transfer(u, a) /\ WithinFrame'
    \/ \E r \in {Riv, Rev} : prom(Riv, r)
    \/ \E r \in {Riv, Rev} : dem(Riv, r)
    \/ \E u \in {Riv, Rev}, t \in FrameIds : Issued(t) /\ confirm(u, t) /\ WithinFrame'
    \/ \E u \in {Riv, Rev}, t \in FrameIds : Issued(t) /\ cancel(u, t)
    \/ ViewHandle

FrameNext ==
    \/ reply = Idle /\ FrameHandle /\ UNCHANGED tasks
    \/ confirm_resume
    \/ run_polling

SpecFrame == Init /\ [][FrameNext]_vars

\* ------------------------------------------------------------- dispatch
\* SpecSteps: the handlers of /add and of the Confirm button one spreadsheet
\* call at a time, as the dispatcher runs them.  The application is built
\* without concurrent_updates and every handler is registered blocking, so
\* the dispatcher awaits the handler of one update to its end before it
\* takes the next update; the spreadsheet calls themselves are synchronous.
\* What a handler holds in local variables between its spreadsheet calls:
\* the balance, the log (prev_tx) and the contributions cell (advance_json)
\* it read and, for a confirm, transfer_data (line 504).
NoData == [sender_id |-> 0, sender_row |-> NoRow, target_id |-> 0, target_row |-> NoRow,
           target_name |-> "", amount |-> 0]
Locals(balance, transfer_data) ==
    [balance |-> balance, transfer_data |-> transfer_data,
     prev_tx |-> <<>>, advance_json |-> EmptyCell]

Task(kind, user, target, transfer_id) ==
    [kind |-> kind, user |-> user, target |-> target, transfer_id |-> transfer_id,
     pc |-> "queued", local |-> Locals(0, NoData), process |-> 1]

StepUpdates ==
    {Task("new", Riv, r, NoId) : r \in {Riv, Rev}}
    \cup {Task("add", u, Riv, NoId) : u \in {Riv, Rev}}
    \cup {Task("transfer", Riv, NoReply, NoId)}
    \cup {Task("confirm", Riv, NoReply, TransferId(Riv.id, Rev.id, 1, i)) : i \in 1..MaxStepTransfers}

WithinSteps == LogTotal(sheet) <= MaxStepLog /\ clock <= MaxStepTransfers

M_MayStepAny(i) == TRUE

\* The handler of the oldest update a process has not yet handled to the end
\* is the only one that runs in that process.
MayStep(i) == \A j \in 1..(i - 1) : tasks[j].process # tasks[i].process

Finished(i) == [j \in 1..(Len(tasks) - 1) |-> IF j < i THEN tasks[j] ELSE tasks[j + 1]]

At(i, kind, pc) ==
    /\ i \in 1..Len(tasks)
    /\ tasks[i].kind = kind
    /\ tasks[i].pc = pc
    /\ MayStep(i)

Goto(i, pc, local) == tasks' = [tasks EXCEPT ![i].pc = pc, ![i].local = local]

\* An update arrives and waits for its turn; a Confirm button can be pressed
\* once the proposal that shows it was made.
get_updates(q) ==
    /\ Len(tasks) < MaxInFlight
    /\ q.kind = "confirm" => q.transfer_id[4] <= clock
    /\ tasks' = Append(tasks, q)
    /\ UNCHANGED <<sheet, pending_transfers, ADMINS, admins_json, clock, reply, net, lost>>

run_new(i) ==
    /\ At(i, "new", "queued")
    /\ new(tasks[i].user, tasks[i].target)
    /\ tasks' = Finished(i)

run_transfer(i) ==
    /\ At(i, "transfer", "queued")
    /\ transfer(tasks[i].user, <<AtREVIOSA, <<"1">>>>)
    /\ tasks' = Finished(i)

\* /add 1 in reply to the target, lines 176-246: up to the read of the balance.
add_read(i) ==
    /\ At(i, "add", "queued")
    /\ IF ~can_modify(tasks[i].user)
       THEN Answer("Unauthorized") /\ Silent /\ tasks' = Finished(i)
       ELSE IF find_user_row(tasks[i].target.id) = NoRow
       THEN Answer("NotFound") /\ Silent /\ tasks' = Finished(i)
       ELSE /\ Goto(i, "write5", Locals(Balance(find_user_row(tasks[i].target.id)), NoData))
            /\ UNCHANGED reply
            /\ Silent

\* Line 249, with the balance read at line 246.
add_write5(i) ==
    /\ At(i, "add", "write5")
    /\ LET row == find_user_row(tasks[i].target.id) IN
       sheet' = SetRow(row, [Row(row) EXCEPT
                                !.balance = PyStr(AddBalance(tasks[i].local.balance, 1))])
    /\ Goto(i, "read7", tasks[i].local)
    /\ UNCHANGED <<pending_transfers, ADMINS, admins_json, clock, reply, net, lost>>

\* Line 254: prev_tx = sheet.cell(row, 7).value
add_read7(i) ==
    /\ At(i, "add", "read7")
    /\ Goto(i, "write7",
            [tasks[i].local EXCEPT !.prev_tx = Row(find_user_row(tasks[i].target.id)).tx])
    /\ UNCHANGED reply
    /\ Silent

\* Lines 255-256, with the log read at line 254.
add_write7(i) ==
    /\ At(i, "add", "write7")
    /\ LET row == find_user_row(tasks[i].target.id) IN
       sheet' = SetRow(row, [Row(row) EXCEPT
                                !.tx = <<TxEntry("+", 1, tasks[i].user.first_name)>>
                                          \o tasks[i].local.prev_tx])
    /\ Goto(i, "read8", tasks[i].local)
    /\ UNCHANGED <<pending_transfers, ADMINS, admins_json, clock, reply, net, lost>>

\* Lines 259-260: advance_json = sheet.cell(row, 8).value; json.loads raises
\* on a cell it rejects.
add_read8(i) ==
    /\ At(i, "add", "read8")
    /\ LET row == find_user_row(tasks[i].target.id) IN
       IF Parses(Row(row).advance)
       THEN /\ Goto(i, "write8", [tasks[i].local EXCEPT !.advance_json = Row(row).advance])
            /\ UNCHANGED <<reply, net>>
       ELSE /\ tasks' = Finished(i)
            /\ net' = [net EXCEPT ![row - HeaderRows] = @ + 1]
            /\ Answer("Raised")
    /\ UNCHANGED <<sheet, pending_transfers, ADMINS, admins_json, clock, lost>>

\* Lines 261-267, with the cell read at line 259.
add_write8(i) ==
    /\ At(i, "add", "write8")
    /\ LET row == find_user_row(tasks[i].target.id) IN
       /\ sheet' = SetRow(row, [Row(row) EXCEPT
                !.advance = JsonDumps(AddContributions(
                                LoadContributions(tasks[i].local.advance_json),
                                tasks[i].user.first_name, 1))])
       /\ net' = [net EXCEPT ![row - HeaderRows] = @ + 1]
    /\ Answer("Added")
    /\ tasks' = Finished(i)
    /\ UNCHANGED <<pending_transfers, ADMINS, admins_json, clock, lost>>

\* Lines 498-514: up to the re-check of the sender's balance.
confirm_check(i) ==
    /\ At(i, "confirm", "queued")
    /\ LET transfer_id == tasks[i].transfer_id IN
       IF transfer_id \notin DOMAIN pending_transfers
       THEN AnswerFor("Expired", transfer_id) /\ Silent /\ tasks' = Finished(i)
       ELSE IF pending_transfers[transfer_id].sender_id # tasks[i].user.id
       THEN AnswerFor("NotOwner", transfer_id) /\ Silent /\ tasks' = Finished(i)
       ELSE IF Balance(pending_transfers[transfer_id].sender_row)
                   < pending_transfers[transfer_id].amount
       THEN ConfirmInsufficient(transfer_id) /\ Goto(i, "del", tasks[i].local)
       ELSE /\ Goto(i, "debit", Locals(Balance(pending_transfers[transfer_id].sender_row),
                                       pending_transfers[transfer_id]))
            /\ UNCHANGED reply
            /\ Silent

\* Lines 515-516, after the await of line 514: del of an id that is no longer
\* there raises KeyError.
confirm_del(i) ==
    /\ At(i, "confirm", "del")
    /\ IF tasks[i].transfer_id \in DOMAIN pending_transfers
       THEN /\ pending_transfers' = Discard(tasks[i].transfer_id)
            /\ UNCHANGED reply
       ELSE /\ AnswerFor("Raised", tasks[i].transfer_id)
            /\ UNCHANGED pending_transfers
    /\ tasks' = Finished(i)
    /\ UNCHANGED <<sheet, ADMINS, admins_json, clock, net, lost>>

\* Lines 523-531, with the balance read at line 512.
confirm_debit(i) ==
    /\ At(i, "confirm", "debit")
    /\ LET d == tasks[i].local.transfer_data IN
       sheet' = SetRow(d.sender_row, [Row(d.sender_row) EXCEPT
                   !.balance = PyStr(tasks[i].local.balance - d.amount),
                   !.tx = <<TxEntry("-", d.amount, d.target_name)>> \o @])
    /\ Goto(i, "credit", tasks[i].local)
    /\ UNCHANGED <<pending_transfers, ADMINS, admins_json, clock, reply, net, lost>>

\* Lines 533-552 (del of an id that is no longer there raises, after the writes).
confirm_credit(i) ==
    /\ At(i, "confirm", "credit")
    /\ LET d == tasks[i].local.transfer_data IN
       IF IsHeader(d.target_row)
       THEN /\ net' = [net EXCEPT ![d.sender_row - HeaderRows] = @ - d.amount]
            /\ AnswerFor("Raised", tasks[i].transfer_id)
            /\ UNCHANGED <<sheet, pending_transfers>>
       ELSE /\ sheet' = Credited(sheet, d.target_row, d.amount, Row(d.sender_row).name)
            /\ net' = [net EXCEPT ![d.sender_row - HeaderRows] = @ - d.amount,
                                  ![d.target_row - HeaderRows] = @ + d.amount]
            /\ pending_transfers' = Discard(tasks[i].transfer_id)
            /\ AnswerFor("Transferred", tasks[i].transfer_id)
    /\ tasks' = Finished(i)
    /\ UNCHANGED <<ADMINS, admins_json, clock, lost>>

StepsHandle ==
    \/ \E i \in 1..MaxInFlight : run_new(i)
    \/ \E i \in 1..MaxInFlight : run_transfer(i) /\ WithinSteps'
    \/ \E i \in 1..MaxInFlight : add_read(i) /\ LogTotal(sheet) + 1 <= MaxStepLog
    \/ \E i \in 1..MaxInFlight : add_write5(i)
    \/ \E i \in 1..MaxInFlight : add_read7(i)
    \/ \E i \in 1..MaxInFlight : add_write7(i)
    \/ \E i \in 1..MaxInFlight : add_read8(i)
    \/ \E i \in 1..MaxInFlight : add_write8(i)
    \/ \E i \in 1..MaxInFlight :
          /\ confirm_check(i)
          /\ (Len(tasks') = Len(tasks) /\ tasks'[i].pc = "debit")
                => LogTotal(sheet) + 2 <= MaxStepLog
    \/ \E i \in 1..MaxInFlight : confirm_del(i)
    \/ \E i \in 1..MaxInFlight : confirm_debit(i)
    \/ \E i \in 1..MaxInFlight : confirm_credit(i)

StepsNext ==
    \/ \E q \in StepUpdates : get_updates(q)
    \/ reply = Idle /\ StepsHandle
    \/ run_polling

SpecSteps == Init /\ [][StepsNext]_vars

\* SpecProcesses: a second process runs the same program on the same
\* spreadsheet.  Each process awaits its own handlers one after the other;
\* nothing orders the spreadsheet calls of one process against those of the
\* other.  The second process only handles /add by the owner, which its own
\* ADMINS and pending_transfers do not influence.
Remote(t) == [t EXCEPT !.process = 2]

ProcessUpdates ==
    {Task("new", Riv, Riv, NoId), Task("add", Riv, Riv, NoId),
     Remote(Task("add", Riv, Riv, NoId))}

\* Handlers that have read the balance and not yet logged their entry.
Started == {j \in 1..Len(tasks) : tasks[j].pc \in {"write5", "read7", "write7"}}

ProcessesHandle ==
    \/ \E i \in 1..MaxInFlight : run_new(i)
    \/ \E i \in 1..MaxInFlight :
          add_read(i) /\ LogTotal(sheet) + Cardinality(Started) + 1 <= MaxStepLog
    \/ \E i \in 1..MaxInFlight : add_write5(i)
    \/ \E i \in 1..MaxInFlight : add_read7(i)
    \/ \E i \in 1..MaxInFlight : add_write7(i)
    \/ \E i \in 1..MaxInFlight : add_read8(i)
    \/ \E i \in 1..MaxInFlight : add_write8(i)

ProcessesNext ==
    \/ \E q \in ProcessUpdates : get_updates(q)
    \/ reply = Idle /\ ProcessesHandle
    \/ run_polling

SpecProcesses == Init /\ [][ProcessesNext]_vars
\* ============================================================= properties
RowAfter(r) == sheet'[r - HeaderRows]
BalanceAfter(r) == PyInt(sheet'[r - HeaderRows].balance)
ContributionsOf(row) == LoadContributions(row.advance)

RECURSIVE SumBalances(_)
SumBalances(s) == IF s = <<>> THEN 0 ELSE PyInt(Head(s).balance) + SumBalances(Tail(s))

\* The row and the amount an add or use request names.
ByReply(q) == q.reply_to # NoReply
NamedRow(q) == IF ByReply(q) THEN find_user_row(q.reply_to.id)
               ELSE find_user_by_username(q.args[1])
NamedAmount(q) == IF ByReply(q) THEN PyInt(q.args[1]) ELSE PyInt(q.args[2])
AllRequests == UnitRequests \cup LedgerRequests

\* C1: for every account, the stored balance equals the signed sum of the
\* amounts applied to it by successful add (+amount) and use (-amount)
\* commands since it was created or last cleared; nothing floors or caps it,
\* so it may be negative.
C1_BalanceIsSignedSum ==
    \A r \in RowNumbers : Balance(r) = net[r - HeaderRows]

C1_Witness ==
    \E r \in RowNumbers :
        /\ Balance(r) < 0
        /\ \E i, j \in 1..Len(Row(r).tx) : Row(r).tx[i].sign = "+" /\ Row(r).tx[j].sign = "-"

\* C2: a successful confirm of a proposal of amount A from X to Y lowers X's
\* balance by exactly A and raises Y's by exactly A, leaves the sum of all
\* balances unchanged, prepends exactly one entry to X's and to Y's log, and
\* changes no other account.
C2_TransferMovesExactly ==
    [][\A u \in Users, t \in TransferIds :
          (reply'.tag = "Transferred" /\ confirm(u, t)) =>
             LET d == pending_transfers[t] IN
             /\ BalanceAfter(d.sender_row) = Balance(d.sender_row) - d.amount
             /\ BalanceAfter(d.target_row) = Balance(d.target_row) + d.amount
             /\ SumBalances(sheet') = SumBalances(sheet)
             /\ Len(RowAfter(d.sender_row).tx) = Len(Row(d.sender_row).tx) + 1
             /\ Tail(RowAfter(d.sender_row).tx) = Row(d.sender_row).tx
             /\ Len(RowAfter(d.target_row).tx) = Len(Row(d.target_row).tx) + 1
             /\ Tail(RowAfter(d.target_row).tx) = Row(d.target_row).tx
             /\ Len(sheet') = Len(sheet)
             /\ \A r \in RowNumbers \ {d.sender_row, d.target_row} : RowAfter(r) = Row(r)
      ]_vars

C2_Witness ==
    /\ reply.tag = "Transferred"
    /\ \E r \in RowNumbers : Row(r).id = reply.id[2] /\ Balance(r) >= 2

\* C3: a confirm by the sender whose balance, re-read at confirm time, is
\* below the pending amount answers InsufficientFunds and changes no balance
\* or log; the handler then removes that proposal and nothing else, and has
\* removed it when the dispatcher takes the next update; a confirm of an id
\* that is not pending answers Expired and changes nothing.
\* (An answer to a button press carries the id of the button: reply.id.)
C3_InsufficientAtConfirm ==
    [][\A u \in Users, t \in TransferIds :
          /\ ( /\ reply'.id = t
               /\ t \in DOMAIN pending_transfers
               /\ pending_transfers[t].sender_id = u.id
               /\ Balance(pending_transfers[t].sender_row) < pending_transfers[t].amount
               /\ confirm(u, t) )
             => /\ reply' = [tag |-> "InsufficientFunds", id |-> t]
                /\ sheet' = sheet
          /\ (reply = [tag |-> "InsufficientFunds", id |-> t] /\ reply' = reply)
             => /\ sheet' = sheet
                /\ DOMAIN pending_transfers' = DOMAIN pending_transfers \ {t}
          /\ (reply = [tag |-> "InsufficientFunds", id |-> t] /\ reply' = Idle)
             => /\ sheet' = sheet
                /\ t \notin DOMAIN pending_transfers'
          /\ ( /\ reply'.id = t
               /\ t \notin DOMAIN pending_transfers
               /\ confirm(u, t) )
             => /\ reply' = [tag |-> "Expired", id |-> t]
                /\ sheet' = sheet
                /\ pending_transfers' = pending_transfers
      ]_vars

C3_Witness ==
    /\ reply.tag = "InsufficientFunds"
    /\ reply.id \notin DOMAIN pending_transfers
    /\ \E r \in RowNumbers : Row(r).id = reply.id[1] /\ Balance(r) < reply.id[3]

\* C4: a confirm or a cancel of a pending transfer id by anyone but the
\* proposal's sender answers NotOwner and leaves the pending map and every
\* account unchanged.
C4_OnlySenderDecides ==
    [][\A u \in Users, t \in TransferIds :
          ( /\ reply'.id = t
            /\ t \in DOMAIN pending_transfers
            /\ pending_transfers[t].sender_id # u.id
            /\ (confirm(u, t) \/ cancel(u, t)) )
          => /\ reply' = [tag |-> "NotOwner", id |-> t]
             /\ pending_transfers' = pending_transfers
             /\ sheet' = sheet
      ]_vars

C4_Witness ==
    /\ reply.tag = "NotOwner"
    /\ reply.id \in DOMAIN pending_transfers

\* C5: a proposal is applied at most once: a successful confirm removes its
\* id from the pending map, an id that was issued and is no longer pending
\* never becomes pending again, and every confirm of such an id answers
\* Expired without changing any balance or log.
C5_AppliedAtMostOnce ==
    [][\A t \in TransferIds :
          /\ \A u \in Users :
                (reply'.tag = "Transferred" /\ confirm(u, t))
                => t \in DOMAIN pending_transfers /\ t \notin DOMAIN pending_transfers'
          /\ (Issued(t) /\ t \notin DOMAIN pending_transfers)
             => /\ t \notin DOMAIN pending_transfers'
                /\ \A u \in Users :
                      confirm(u, t) => reply'.tag = "Expired" /\ sheet' = sheet /\ net' = net
      ]_vars

\* The only proposal of the run was confirmed (its debit is in the sender's
\* log) and a second confirm of the same id has been answered Expired.
C5_Witness ==
    /\ reply.tag = "Expired"
    /\ clock = 1
    /\ reply.id[4] = 1
    /\ \E r, q \in RowNumbers :
          /\ Row(r).id = reply.id[1]
          /\ Row(q).id = reply.id[2]
          /\ \E i \in 1..Len(Row(r).tx) : Row(r).tx[i] = TxEntry("-", 1, Row(q).name)
          /\ \E i \in 1..Len(Row(q).tx) : Row(q).tx[i] = TxEntry("+", 1, Row(r).name)

\* C6: an add, use, clear or transfer by an authorised actor that names a
\* member identity or a handle with no account answers NotFound and leaves
\* the sheet and the pending map unchanged.
HandleHasAccount(h) ==
    \E r \in RowNumbers :
        /\ Row(r).username # <<>>
        /\ Lower(LStripAt(Row(r).username)) = Lower(LStripAt(h))

NamesNoAccount(q) ==
    IF ByReply(q) THEN \A r \in RowNumbers : Row(r).id # q.reply_to.id
    ELSE q.args # <<>> /\ StartsWithAt(q.args[1]) /\ ~HandleHasAccount(q.args[1])

WellFormedAmount(q) ==
    IF ByReply(q) THEN Len(q.args) = 1 /\ IsInt(q.args[1])
    ELSE Len(q.args) = 2 /\ IsInt(q.args[2])

NotFoundUntouched ==
    /\ reply'.tag = "NotFound"
    /\ sheet' = sheet
    /\ pending_transfers' = pending_transfers

C6_UnknownTargetNotFound ==
    [][\A u \in Users :
          /\ \A q \in AllRequests :
                ( /\ can_modify(u) /\ NamesNoAccount(q) /\ WellFormedAmount(q)
                  /\ (add(u, q.reply_to, q.args) \/ use(u, q.reply_to, q.args)) )
                => NotFoundUntouched
          /\ \A q \in ClearRequests :
                (can_modify(u) /\ NamesNoAccount(q) /\ clear(u, q.reply_to, q.args))
                => NotFoundUntouched
          /\ \A a \in TransferArgs :
                ( /\ can_modify(u) /\ find_user_row(u.id) # NoRow
                  /\ Len(a) = 2 /\ IsInt(a[2]) /\ PyInt(a[2]) > 0
                  /\ ~HandleHasAccount(a[1])
                  /\ transfer(u, a) )
                => NotFoundUntouched
      ]_vars

\* C7: a clear leaves the account with balance 0, an empty log and an empty
\* contribution breakdown, keeps its id, name and handle, and changes no
\* other account, whatever the account held before.
C7_ClearResets ==
    [][\A u \in Users, q \in ClearRequests, r \in RowNumbers :
          ( /\ reply'.tag = "Cleared"
            /\ r = find_user_row(q.reply_to.id)
            /\ clear(u, q.reply_to, q.args) )
          => /\ BalanceAfter(r) = 0
             /\ RowAfter(r).tx = <<>>
             /\ ContributionsOf(RowAfter(r)) = <<>>
             /\ get_contribution_breakdown(r)' = <<>>
             /\ RowAfter(r).id = Row(r).id
             /\ RowAfter(r).name = Row(r).name
             /\ RowAfter(r).username = Row(r).username
             /\ Len(sheet') = Len(sheet)
             /\ \A o \in RowNumbers \ {r} : RowAfter(o) = Row(o)
      ]_vars

\* A cleared account next to an account that still holds its log.
C7_Witness ==
    /\ reply.tag = "Cleared"
    /\ \E r, o \in RowNumbers :
          /\ r # o
          /\ Row(r).tx = <<>> /\ Balance(r) = 0 /\ Row(r).advance = EmptyCell
          /\ Row(o).tx # <<>> /\ ContributionsOf(Row(o)) # <<>>

\* C8: every add or use of signed amount s by actor a sets contributions[a]
\* to (previous entry, or 0 if absent) + s when that is > 0 and removes the
\* entry when it is <= 0, for every integer amount.
ContributionRule(before, after, actor, s) ==
    IF DictGet(ContributionsOf(before), actor, 0) + s > 0
    THEN /\ DictHas(ContributionsOf(after), actor)
         /\ DictGet(ContributionsOf(after), actor, 0)
               = DictGet(ContributionsOf(before), actor, 0) + s
    ELSE ~DictHas(ContributionsOf(after), actor)

C8_ContributionRule ==
    [][\A u \in Users, q \in AllRequests, r \in RowNumbers :
          /\ ( /\ reply'.tag = "Added" /\ add(u, q.reply_to, q.args)
               /\ r = NamedRow(q) )
             => ContributionRule(Row(r), RowAfter(r), u.first_name, NamedAmount(q))
          /\ ( /\ reply'.tag = "Deducted" /\ use(u, q.reply_to, q.args)
               /\ r = NamedRow(q) )
             => ContributionRule(Row(r), RowAfter(r), u.first_name, 0 - NamedAmount(q))
      ]_vars

\* C9: in every reachable state every entry stored in any account's
\* contributions is non-negative.
C9_ContributionsNonNegative ==
    \A r \in RowNumbers :
        \A i \in 1..Len(ContributionsOf(Row(r))) : ContributionsOf(Row(r))[i][2] >= 0

\* C10: a transfer request adds a proposal only when the actor passes
\* can_modify, the actor has an account, the handle resolves to an account
\* other than the actor's, the amount is > 0 and the sender's balance covers
\* it; nothing else adds a proposal; so after every step every pending
\* proposal has an amount > 0 and a sender row different from its target row.
ProposalOk(u, a) ==
    /\ can_modify(u)
    /\ find_user_row(u.id) # NoRow
    /\ Len(a) >= 2
    /\ IsInt(a[2]) /\ PyInt(a[2]) > 0
    /\ find_user_by_username(a[1]) \in RowNumbers
    /\ find_user_by_username(a[1]) # find_user_row(u.id)
    /\ Balance(find_user_row(u.id)) >= PyInt(a[2])

C10_ProposalsAreValid ==
    [][/\ \A t \in DOMAIN pending_transfers' :
             /\ pending_transfers'[t].amount > 0
             /\ pending_transfers'[t].sender_row # pending_transfers'[t].target_row
       /\ \A u \in Users, a \in TransferArgs \cup FrameTransfers :
             (pending_transfers' # pending_transfers /\ transfer(u, a)) => ProposalOk(u, a)
       /\ (DOMAIN pending_transfers' \subseteq DOMAIN pending_transfers)
             \/ \E u \in Users, a \in TransferArgs \cup FrameTransfers :
                   ProposalOk(u, a) /\ transfer(u, a)
      ]_vars

\* C11: an actor who is neither the owner nor the holder of a handle in the
\* manager set is refused by new, add, use, clear and transfer, and the sheet
\* and the pending map stay as they are; the owner and the holders of a handle
\* in the manager set are not refused for lack of permission.
Members == Users \cup {Cal}

Permitted(u) == u.id = OWNER_ID \/ (u.username # None /\ InAdmins(u.username))

Command(u) ==
    \/ \E r \in {Riv, Rev} : new(u, r)
    \/ add(u, Riv, <<<<"1">>>>)
    \/ use(u, Riv, <<<<"1">>>>)
    \/ clear(u, Riv, <<>>)
    \/ transfer(u, <<AtREVIOSA, <<"1">>>>)

C11_OnlyPermittedActorsModify ==
    [][\A u \in Members :
          /\ (~Permitted(u) /\ Command(u)) =>
                /\ reply'.tag = "Unauthorized"
                /\ sheet' = sheet
                /\ pending_transfers' = pending_transfers
          /\ (Permitted(u) /\ Command(u)) => reply'.tag # "Unauthorized"
      ]_vars

\* C12: a step in which a command is answered changes the manager list or
\* admins.json only if it is a promote or a demote by the owner on a target
\* other than the owner; a promote or demote by anyone else, or on the owner,
\* leaves both unchanged.
C12_OnlyOwnerChangesManagers ==
    [][reply'.tag # "Idle" =>
          /\ (ADMINS' # ADMINS \/ admins_json' # admins_json) =>
                \E r \in PromTargets \ {NoReply} :
                    r.id # OWNER_ID /\ (prom(Riv, r) \/ dem(Riv, r))
          /\ \A u \in Members, r \in PromTargets :
                ( /\ u.id # OWNER_ID \/ r.id = OWNER_ID
                  /\ prom(u, r) \/ dem(u, r) )
                => ADMINS' = ADMINS /\ admins_json' = admins_json
      ]_vars

C12_Witness ==
    /\ reply.tag \in {"OwnerOnly", "OwnerProtected"}
    /\ ADMINS # <<reviosa, zaonoror>>
    /\ admins_json = ADMINS

\* C13: a promote of a user whose username is in the manager list answers
\* AlreadyManager, a demote of a user whose username is not in it answers
\* NotManager, both leave the list and admins.json unchanged, and the list
\* never holds a username twice.
NoDuplicates(list) == \A i, j \in 1..Len(list) : list[i] = list[j] => i = j

C13_NoDoublePromotion ==
    [][/\ \A r \in PromTargets \ {NoReply, Riv} :
             /\ (InAdmins(r.username) /\ prom(Riv, r)) =>
                   /\ reply'.tag = "AlreadyManager"
                   /\ ADMINS' = ADMINS /\ admins_json' = admins_json
             /\ (~InAdmins(r.username) /\ dem(Riv, r)) =>
                   /\ reply'.tag = "NotManager"
                   /\ ADMINS' = ADMINS /\ admins_json' = admins_json
       /\ NoDuplicates(ADMINS')
      ]_vars

C13_Witness ==
    /\ reply.tag = "AlreadyManager"
    /\ Len(ADMINS) = 3
    /\ admins_json = ADMINS

\* C14: a restart keeps the manager set: every member passes can_modify
\* after the restart exactly if they passed it just before.
C14_ManagersSurviveRestart ==
    [][restart => \A u \in Members : can_modify(u)' = can_modify(u)]_vars

\* C15: a new for a member who has an account answers AlreadyExists and
\* leaves the sheet unchanged; otherwise it appends exactly one row for that
\* member with balance 0, an empty log and empty contributions and alters no
\* existing row; no two rows of the sheet carry the same member id.
UniqueIds(s) == \A i, j \in 1..Len(s) : s[i].id = s[j].id => i = j

C15_OneAccountPerMember ==
    [][/\ \A u \in Users, r \in Users :
             (can_modify(u) /\ new(u, r)) =>
                IF find_user_row(r.id) # NoRow
                THEN reply'.tag = "AlreadyExists" /\ sheet' = sheet
                ELSE /\ reply'.tag = "Created"
                     /\ Len(sheet') = Len(sheet) + 1
                     /\ SubSeq(sheet', 1, Len(sheet)) = sheet
                     /\ sheet'[Len(sheet')].id = r.id
                     /\ PyInt(sheet'[Len(sheet')].balance) = 0
                     /\ sheet'[Len(sheet')].tx = <<>>
                     /\ ContributionsOf(sheet'[Len(sheet')]) = <<>>
       /\ UniqueIds(sheet')
      ]_vars

C15_Witness ==
    /\ reply.tag = "AlreadyExists"
    /\ Len(sheet) = 2
    /\ \E r \in RowNumbers : Row(r).tx # <<>>

\* C16: a cancel by the sender removes the proposal and changes no account;
\* a cancel of an id that is not pending changes neither the pending map nor
\* any account, so a cancel after a successful confirm does not revert it.
C16_CancelOnlyDiscards ==
    [][\A u \in Users, t \in TransferIds :
          ( /\ reply'.id = t
            /\ t \in DOMAIN pending_transfers => pending_transfers[t].sender_id = u.id
            /\ cancel(u, t) )
          => /\ reply' = [tag |-> "Cancelled", id |-> t]
             /\ sheet' = sheet
             /\ pending_transfers' = Discard(t)
             /\ t \notin DOMAIN pending_transfers => pending_transfers' = pending_transfers
      ]_vars

C16_Witness ==
    /\ reply.tag = "Cancelled"
    /\ reply.id[4] = clock
    /\ \E r, q \in RowNumbers :
          /\ Row(r).id = reply.id[1]
          /\ Row(q).id = reply.id[2]
          /\ Row(r).tx # <<>> /\ Head(Row(r).tx) = TxEntry("-", 1, Row(q).name)
          /\ Row(q).tx # <<>> /\ Head(Row(q).tx) = TxEntry("+", 1, Row(r).name)

\* C17: a proposal leaves the pending map only in a confirm by its sender
\* (applied, or refused for insufficient funds), a cancel by its sender or a
\* restart; a restart empties the map, and a confirm of a proposal that a
\* restart dropped answers Expired and changes no balance.
C17_PendingLeavesOnlyByDecision ==
    [][/\ \A t \in DOMAIN pending_transfers :
             t \notin DOMAIN pending_transfers' =>
                \/ restart
                \/ \E u \in Users :
                      /\ u.id = pending_transfers[t].sender_id
                      /\ confirm(u, t) \/ cancel(u, t)
                      /\ reply'.tag \in {"Transferred", "Cancelled"}
                \/ /\ reply = [tag |-> "InsufficientFunds", id |-> t]
                   /\ confirm_resume
       /\ \A u \in Users, t \in TransferIds :
             (t \in DOMAIN pending_transfers /\ confirm(u, t)
                /\ reply' = [tag |-> "InsufficientFunds", id |-> t])
             => u.id = pending_transfers[t].sender_id
       /\ restart => pending_transfers' = <<>>
       /\ \A t \in lost, u \in Users :
             confirm(u, t) => reply'.tag = "Expired" /\ sheet' = sheet
      ]_vars

C17_Witness ==
    /\ reply.tag = "Expired"
    /\ reply.id \in lost
    /\ \E r \in RowNumbers : Row(r).id = reply.id[1] /\ Balance(r) >= reply.id[3]

\* C18: whenever no handler is running, every account's balance equals the
\* signed sum of the entries of its transaction log, also after a handler
\* was ended by a failing call to the spreadsheet.
RECURSIVE LogSum(_)
LogSum(tx) ==
    IF tx = <<>> THEN 0
    ELSE (IF Head(tx).sign = "+" THEN Head(tx).amount ELSE -Head(tx).amount)
         + LogSum(Tail(tx))

C18_BalanceMatchesLog ==
    reply = Idle => \A r \in RowNumbers : Balance(r) = LogSum(Row(r).tx)

\* C20: a successful confirm of amount A updates, by the contribution rule,
\* the sender account's contributions entry for the target's name by -A and
\* the target account's contributions entry for the sender's name by +A.
C20_TransferCountsAsContribution ==
    [][\A u \in Users, t \in TransferIds :
          (reply'.tag = "Transferred" /\ confirm(u, t)) =>
             LET d == pending_transfers[t] IN
             /\ ContributionRule(Row(d.sender_row), RowAfter(d.sender_row),
                                 d.target_name, -d.amount)
             /\ ContributionRule(Row(d.target_row), RowAfter(d.target_row),
                                 Row(d.sender_row).name, d.amount)
      ]_vars

\* C19: the handlers of one process never overlap: at most one handler is
\* between its first read and its last write, updates are handled to the end
\* in arrival order, and whenever no handler is in the middle of its writes
\* every balance is the sum of the amounts the finished handlers applied and
\* of its log (no update is lost, no proposal is applied twice).
Midway(task) == task.pc # "queued"

C19_HandlersAreSerialized ==
    [][/\ \A i, j \in 1..Len(tasks') :
             (Midway(tasks'[i]) /\ Midway(tasks'[j])) => i = j
       /\ Len(tasks') < Len(tasks) => tasks' = Tail(tasks)
       /\ (\A i \in 1..Len(tasks') : ~Midway(tasks'[i])) =>
             \A k \in 1..Len(sheet') :
                /\ PyInt(sheet'[k].balance) = net'[k]
                /\ PyInt(sheet'[k].balance) = LogSum(sheet'[k].tx)
      ]_vars

\* The second of two adds to the same account, or the second press of
\* Confirm on the same proposal, waits while the first is between its writes.
C19_Witness ==
    /\ Len(tasks) = 2
    /\ tasks[1].pc \in {"write7", "credit"}
    /\ tasks[2].kind = tasks[1].kind
    /\ tasks[2].target = tasks[1].target
    /\ tasks[2].transfer_id = tasks[1].transfer_id

\* C21: column 8 holding text that does not parse is never a failure: the
\* breakdown of such a row is empty, and an add or a use on it is answered
\* as usual and updates balance, log and contributions, the contributions as
\* if the cell were empty.
C21_MalformedContributionsAreEmpty ==
    [][/\ \A r \in RowNumbers :
             ~Parses(Row(r).advance) => get_contribution_breakdown(r) = <<>>
       /\ \A q \in StoreRequests :
             LET r == NamedRow(q)
             IN  (r # NoRow /\ ~Parses(Row(r).advance)) =>
                   /\ add(Riv, q.reply_to, q.args) =>
                         /\ reply'.tag = "Added"
                         /\ BalanceAfter(r) = Balance(r) + NamedAmount(q)
                         /\ Tail(RowAfter(r).tx) = Row(r).tx
                         /\ Parses(RowAfter(r).advance)
                         /\ ContributionsOf(RowAfter(r))
                               = AddContributions(<<>>, Riv.first_name, NamedAmount(q))
                   /\ use(Riv, q.reply_to, q.args) =>
                         /\ reply'.tag = "Deducted"
                         /\ BalanceAfter(r) = Balance(r) - NamedAmount(q)
                         /\ Tail(RowAfter(r).tx) = Row(r).tx
                         /\ Parses(RowAfter(r).advance)
                         /\ ContributionsOf(RowAfter(r)) = <<>>
      ]_vars

\* C22: with two processes on one spreadsheet an update can be lost.  The
\* balance a handler read before its write goes stale only through the write
\* of a handler of the other process, and once no handler is between its
\* calls a balance is never above the sum of the amounts added; the witness
\* is the lost update itself.
C22_LostUpdateAcrossProcesses ==
    [][/\ \A i \in 1..Len(tasks) :
             (/\ tasks[i].pc = "write5"
              /\ tasks[i].local.balance = Balance(find_user_row(tasks[i].target.id))
              /\ tasks[i].local.balance # BalanceAfter(find_user_row(tasks[i].target.id))
              /\ ~add_write5(i))
             => \E j \in 1..Len(tasks) :
                   tasks[j].process # tasks[i].process /\ add_write5(j)
       /\ tasks' = <<>> =>
             \A k \in 1..Len(sheet') : PyInt(sheet'[k].balance) <= net'[k]
      ]_vars

\* Two adds of 1 have both been answered and the balance is 1.
C22_Witness ==
    /\ tasks = <<>>
    /\ \E k \in 1..Len(sheet) :
          /\ net[k] = 2
          /\ PyInt(sheet[k].balance) = 1
          /\ Len(sheet[k].tx) = 2

\* C23: whatever number of proposals of one sender is pending at once and in
\* whatever order they are confirmed, the sender's balance right after a
\* successful confirm is not negative.
C23_ConfirmNeverOverdraws ==
    [][\A t \in PendingIds :
          (reply'.id = t /\ reply'.tag = "Transferred" /\ confirm(Riv, t))
          => BalanceAfter(pending_transfers[t].sender_row) >= 0
      ]_vars

\* Two proposals were pending against a balance of 1: the first confirm went
\* through, the second is refused and the sender's balance is 0.
C23_Witness ==
    /\ reply.tag = "InsufficientFunds"
    /\ clock = 2
    /\ DOMAIN pending_transfers = {}
    /\ \E r \in RowNumbers :
          /\ Row(r).id = reply.id[1]
          /\ Balance(r) = 0
          /\ Len(Row(r).tx) = 2
          /\ Head(Row(r).tx).sign = "-"

\* C25: a promote that succeeds changes what can_modify answers for its
\* target only: for every other member, with or without a username,
\* can_modify is the same before and after.
C25_PromoteChangesOnlyTarget ==
    [][\A r \in PromTargets \ {NoReply} :
          (reply'.tag = "Promoted" /\ prom(Riv, r))
          => \A u \in Members \ {r} : can_modify(u)' = can_modify(u)
      ]_vars

\* C24: whenever a confirm succeeds, the member who pressed Confirm passes
\* can_modify at that moment; a manager demoted after proposing cannot
\* complete the transfer.
C24_ConfirmNeedsPermission ==
    [][\A u \in {Riv, Rev}, t \in FrameIds :
          (reply'.id = t /\ reply'.tag = "Transferred" /\ confirm(u, t))
          => can_modify(u)
      ]_vars

\* C26: the balance, log and contributions of an account change only in a
\* step answered as an add, a use, a clear or a successful confirm; a
\* transfer command, a cancel, a confirm that fails, a promote, a demote and
\* every view leave the sheet as it is.
C26_OnlyMutationsChangeAccounts ==
    [][/\ \A k \in 1..Len(sheet) :
             sheet'[k] # sheet[k] =>
                reply'.tag \in {"Added", "Deducted", "Cleared", "Transferred"}
       /\ ( \/ \E u \in {Rev, Bob}, a \in FrameTransfers : transfer(u, a)
            \/ \E u \in {Riv, Rev}, t \in FrameIds : cancel(u, t)
            \/ \E u \in {Riv, Rev}, t \in FrameIds :
                  confirm(u, t) /\ reply'.tag # "Transferred"
            \/ \E r \in {Riv, Rev} : prom(Riv, r) \/ dem(Riv, r)
            \/ ViewHandle )
          => sheet' = sheet
      ]_vars

\* What the "+" entries of a log add up to.
RECURSIVE Credits(_)
Credits(tx) ==
    IF tx = <<>> THEN 0
    ELSE (IF Head(tx).sign = "+" THEN Head(tx).amount ELSE 0) + Credits(Tail(tx))

\* In SpecRetry the sender's account is raised by adds only, each of them
\* logged, and lowered by confirm attempts only: what the attempts have
\* deducted so far is the difference.
Deducted(r) == Credits(Row(r).tx) - Balance(r)

\* C27: over all confirm attempts on one transfer id, some of which end in a
\* failed spreadsheet call, the sender's balance is lowered by at most the
\* amount of the transfer.  (Stated for the runs in which t is the only
\* transfer ever proposed.)
C27_DebitedAtMostOnce ==
    \A t \in TransferIds :
       (clock = 1 /\ Issued(t)) =>
          \A r \in RowNumbers : Row(r).id = t[1] => Deducted(r) <= t[3]
====
